---- MODULE Spec2Model ----
(***************************************************************************)
(* Model of Open-food-V2.py: main() splits the catalog pages into          *)
(* NUMBER_OF_PROCESS buckets, starts one pool job per bucket running       *)
(* get_products_df(process_id, pages), and waits for the jobs.  Each job   *)
(* lists the products of every page of its bucket, scrapes each product    *)
(* with get_product_info, appends the record to its in-memory list,        *)
(* inserts it into MongoDB and rewrites its JSON file.                     *)
(*                                                                         *)
(* Field names are written in ASCII (accents dropped).                     *)
(***************************************************************************)
EXTENDS Integers, Sequences, FiniteSets, TLC

\* ---------------------------------------------------------------- bounds
\* Largest number of catalog pages get_number_of_pages() returns in a run
\* of the whole program (Spec).
MaxPages == 5
\* Largest number of products listed on one catalog page.
MaxItems == 2
\* Largest number of products the whole catalog lists in a run of the
\* whole program (Spec).
MaxRunItems == 1
\* Largest number of products the catalog lists to the job of the single-job
\* specification (JobSpec).
MaxJobItems == 2
\* Largest number of consecutive navigation failures of one product page.
MaxOutage == 1
\* Largest worker count the partition is examined for.
MaxWorkerCount == 5
\* Largest number of pages handed to the job of the single-job specification.
MaxJobPages == 2
\* Largest number of catalog pages in the runs of SplitSpec.
MaxSplitPages == 10

\* ------------------------------------------------------ program constants
NUMBER_OF_PROCESS == 4
UNKNOWN_VALUE == "XXX"

Procs == 0 .. (NUMBER_OF_PROCESS - 1)

\* ------------------------------------------------------------ partition
Min(a, b) == IF a < b THEN a ELSE b

\* np.arange(1, number_of_pages + 1) as a list
arange(n) == [i \in 1 .. n |-> i]

\* numpy.array_split: div_points = cumsum([0] + extras*[Neach+1] +
\* (Nsections-extras)*[Neach]) with Neach, extras = divmod(Ntotal, Nsections)
DivPointBroken(n, k, i) == i * (n \div k)
\* cut points that leave the whole remainder to the last section
DivPointLast(n, k, i) == IF i = k THEN n ELSE i * (n \div k)
DivPoint(n, k, i) == i * (n \div k) + Min(i, n % k)

\* numpy.array_split(ary, k): k sub-arrays ary[div_points[i]:div_points[i+1]]
array_split(ary, k) ==
    [i \in 1 .. k |->
        SubSeq(ary, DivPoint(Len(ary), k, i - 1) + 1, DivPoint(Len(ary), k, i))]

\* ------------------------------------------------------------ the catalog
Urls == {"u1", "u2"}

\* the bar code printed on a product's page
CodeOf(u) == IF u = "u1" THEN "c1" ELSE "c2"

ScoreKeys == {"Nutri-score", "NOVA", "Eco-Score"}
CaracKeys ==
    {"Denomination generique", "Quantite", "Conditionnement", "Marques",
     "Categories", "Labels, certifications, recompenses",
     "Origine des ingredients", "Lieux de fabrication ou de transformation",
     "Code de tracabilite",
     "Lien vers la page du produit sur le site officiel du fabricant",
     "Magasins", "Pays de vente"}
PalmKey == "Ingredients issus de l'huile de palme"
IngrKeys == {"Additifs", PalmKey}
Nutri100Keys ==
    {"Matieres grasses / Lipides", "Acides gras satures", "Sucres", "Sel"}
ComparisonKey ==
    "Comparaison avec les valeurs moyennes des produits de meme categorie"
NutriKeys == {"Energie (kcal)", "Nombre de calorie (Energie (kcal))"}

\* the keys get_product_info sets, in every record it returns
DeclaredKeys ==
    {"Nom du Produit", "Code_barres"} \cup ScoreKeys \cup CaracKeys
      \cup IngrKeys \cup Nutri100Keys \cup {ComparisonKey} \cup NutriKeys
      \cup {"Impact environnemental"}

\* What a rendered product page holds, as far as the selectors of the
\* extraction helpers can tell:
\*   h1        //h1[@itemprop='name'] exists
\*   ncode     number of //span[@property='food:code']
\*   grid      the element with id attributes_grid exists
\*   h4s       the scores named by the h4 elements of the grid
\*   ecospan   the grid element naming the Eco-Score has a span below it
\*   container the characteristics div exists
\*   labels    the characteristics whose <p><span>label</span> exists
\*   ingr      the ingredient labels of the 'medium-6 columns' divs
\*   additifa  the Additifs div holds a link
\*   n100      the nutrient lines under 'Reperes nutritionnels pour 100 g'
\*   ncmp      number of checked comparison check boxes
\*   kcaltd, energytd   number of td cells of the two energy rows (0: no row)
FullDom ==
    [h1 |-> TRUE, ncode |-> 1, grid |-> TRUE, h4s |-> ScoreKeys,
     ecospan |-> TRUE, container |-> TRUE, labels |-> CaracKeys,
     ingr |-> IngrKeys, additifa |-> TRUE, n100 |-> Nutri100Keys,
     ncmp |-> 2, kcaltd |-> 2, energytd |-> 2]
SparseDom ==
    [h1 |-> TRUE, ncode |-> 0, grid |-> TRUE, h4s |-> {},
     ecospan |-> FALSE, container |-> TRUE,
     labels |-> {"Quantite", "Marques", "Categories", "Pays de vente"},
     ingr |-> {}, additifa |-> FALSE, n100 |-> {},
     ncmp |-> 0, kcaltd |-> 0, energytd |-> 0]
NoNameDom == [FullDom EXCEPT !.h1 = FALSE]
NoGridDom == [SparseDom EXCEPT !.grid = FALSE]
DomKinds == {FullDom, SparseDom, NoNameDom, NoGridDom}

\* ---------------------------------------------------- extraction helpers
\* A helper either raises or returns the fields it extracted.
Raised == [ok |-> FALSE, f |-> <<>>]
Ret(f) == [ok |-> TRUE, f |-> f]

\* find_element_by_xpath raises NoSuchElementException without an h1
get_product_name(dom) ==
    IF dom.h1 THEN Ret([k \in {"Nom du Produit"} |-> "v"]) ELSE Raised

get_code_barres(u, dom) ==
    Ret([k \in {"Code_barres"} |->
            IF dom.ncode = 1 THEN CodeOf(u) ELSE UNKNOWN_VALUE])

\* find_element_by_id('attributes_grid') raises without the grid
get_scores(dom) ==
    IF dom.grid
      THEN Ret([k \in ScoreKeys |-> IF k \in dom.h4s THEN "v" ELSE UNKNOWN_VALUE])
      ELSE Raised

\* find_elements(...)[0] raises IndexError without the container
get_product_caracteristics(dom) ==
    IF dom.container
      THEN Ret([k \in CaracKeys |-> IF k \in dom.labels THEN "v" ELSE UNKNOWN_VALUE])
      ELSE Raised

\* the Additifs value is read from a link: find_element raises without it
get_ingredients(dom) ==
    IF "Additifs" \in dom.ingr /\ ~dom.additifa
      THEN Raised
      ELSE Ret([k \in IngrKeys |->
                  IF k = PalmKey
                    THEN (IF k \in dom.ingr THEN "Yes" ELSE "No")
                    ELSE (IF k \in dom.ingr THEN "v" ELSE UNKNOWN_VALUE)])

get_100g_nutritional_info(dom) ==
    Ret([k \in Nutri100Keys |-> IF k \in dom.n100 THEN "v" ELSE UNKNOWN_VALUE])

get_comparison(dom) ==
    Ret([k \in {ComparisonKey} |-> IF dom.ncmp = 0 THEN UNKNOWN_VALUE ELSE "v"])

\* elements[1] raises IndexError on a row with a single td
get_nutritional_info(dom) ==
    IF dom.kcaltd = 1 \/ dom.energytd = 1
      THEN Raised
      ELSE Ret([k \in NutriKeys |->
                  IF k = "Energie (kcal)"
                    THEN (IF dom.kcaltd = 0 THEN UNKNOWN_VALUE ELSE "v")
                    ELSE (IF dom.energytd = 0 THEN UNKNOWN_VALUE ELSE "v")])

\* find_element_by_id raises without the grid; the span lookup raises
\* when the element naming the Eco-Score has no span
get_environment_impact(dom) ==
    IF ~dom.grid THEN Raised
    ELSE IF "Eco-Score" \in dom.h4s
      THEN (IF dom.ecospan
              THEN Ret([k \in {"Impact environnemental"} |-> "v"])
              ELSE Raised)
      ELSE Ret([k \in {"Impact environnemental"} |-> UNKNOWN_VALUE])

\* the helpers in the order get_product_info calls them
Steps(u, dom) ==
    << get_product_name(dom), get_code_barres(u, dom), get_scores(dom),
       get_product_caracteristics(dom), get_ingredients(dom),
       get_100g_nutritional_info(dom), get_comparison(dom),
       get_nutritional_info(dom), get_environment_impact(dom) >>

RECURSIVE Merge(_, _)
\* info[...] = ... / info.update(...) over the first n helpers
Merge(steps, n) ==
    IF n = 0 THEN <<>> ELSE steps[n].f @@ Merge(steps, n - 1)

\* get_product_info after driver.get(url) returned: the first helper that
\* raises ends the call with its exception, otherwise the record is returned
get_product_info(u, dom) ==
    LET steps == Steps(u, dom) IN
    IF \A i \in 1 .. Len(steps) : steps[i].ok
      THEN Ret(Merge(steps, Len(steps)))
      ELSE Raised

\* ------------------------------------------------------------------ state
VARIABLES
    number_of_pages,  \* what get_number_of_pages() returned
    mpc,              \* where main() is: "submit", "wait", "returned", "raised";
                      \* "none" when a single job is run on its own
    index,            \* main's loop variable: number of jobs submitted
    waiting,          \* index of the job whose get() main is blocked in
    wk,               \* per pool job: the locals of get_products_df
    store,            \* the documents of the MongoDB collection products
    budget            \* how many more products the catalog will list

vars == << number_of_pages, mpc, index, waiting, wk, store, budget >>

\* the buckets main() hands out, buckets[i + 1] to process_id i
Buckets == array_split(arange(number_of_pages), NUMBER_OF_PROCESS)

\* nothing handled yet: the entry of `last` before the first product
NoLast == [at |-> << 0, 0 >>, url |-> "", outcome |-> "none", err0 |-> 0, left |-> 0]

\* the open_food_data#<id>.json file: absent, or what the last open/dump left
NoFile == [st |-> "absent", recs |-> << >>]

\* a job's locals; pc is the statement it is at:
\*   idle (not submitted), start (line 749), page (line 760), item (line 767),
\*   insert (line 772), open (line 773), dump (line 774),
\*   done (returned), failed (raised), killed (terminated with the pool);
\* exc is the exception a failed job ended with (what its AsyncResult holds);
\* last describes the product handled last (kept for the properties only)
IdleJob ==
    [pc |-> "idle", pages |-> << >>, page_number |-> 0, urls |-> << >>,
     product_index |-> 0, products |-> << >>, total_success |-> 0,
     total_error |-> 0, file |-> NoFile, csv |-> << >>, hascsv |-> FALSE,
     exc |-> "", last |-> NoLast]

\* get_products_df(process_id, pages) at its first statement
NewJob(pages) == [IdleJob EXCEPT !.pc = "start", !.pages = pages]

\* sequences of at most n product urls
UrlSeqs(n) == UNION {[1 .. m -> Urls] : m \in 0 .. n}

\* the page number and product index the job is at, and the url there
At(s) == << s.pages[s.page_number + 1], s.product_index >>
CurUrl(s) == s.urls[s.product_index + 1]

\* ---------------------------------------------------------- get_products_df
\* line 749: get_webdriver() returned a driver
StartJob(w) ==
    /\ wk[w].pc = "start"
    /\ wk' = [wk EXCEPT ![w].pc = "page"]
    /\ UNCHANGED << number_of_pages, mpc, index, waiting, store, budget >>

\* line 749: get_webdriver() raised (download failed, no browser); nothing
\* catches it, the job ends with the exception
WebdriverFails(w) ==
    /\ wk[w].pc = "start"
    /\ wk' = [wk EXCEPT ![w].pc = "failed", ![w].exc = "WebDriverError"]
    /\ UNCHANGED << number_of_pages, mpc, index, waiting, store, budget >>

\* lines 760-766: next page of the bucket, its product urls listed
ListPage(w) ==
    /\ wk[w].pc = "page"
    /\ wk[w].page_number < Len(wk[w].pages)
    /\ \E urls \in UrlSeqs(Min(MaxItems, budget)) :
         /\ wk' = [wk EXCEPT ![w].urls = urls, ![w].product_index = 0,
                             ![w].pc = "item"]
         /\ budget' = budget - Len(urls)
    /\ UNCHANGED << number_of_pages, mpc, index, waiting, store >>

\* line 764: driver.get or the element query of get_products_urls_by_page
\* raised; the call is outside the try, the job ends with the exception
ListPageFails(w) ==
    /\ wk[w].pc = "page"
    /\ wk[w].page_number < Len(wk[w].pages)
    /\ wk' = [wk EXCEPT ![w].pc = "failed", ![w].exc = "PageFetchError"]
    /\ UNCHANGED << number_of_pages, mpc, index, waiting, store, budget >>

\* an except clause that does not count the error
OnErrorSilent(s, tag, left) ==
    [s EXCEPT !.product_index = @ + 1, !.pc = "item",
              !.last = [at |-> At(s), url |-> CurUrl(s), outcome |-> tag,
                        err0 |-> s.total_error, left |-> left]]
\* an except clause that gives up the rest of the page
OnErrorBreak(s, tag, left) ==
    [s EXCEPT !.total_error = @ + 1, !.product_index = Len(s.urls),
              !.pc = "item",
              !.last = [at |-> At(s), url |-> CurUrl(s), outcome |-> tag,
                        err0 |-> s.total_error, left |-> left]]
\* lines 776-780: the except clause, then the next product_index
OnError(s, tag, left) ==
    [s EXCEPT !.total_error = @ + 1, !.product_index = @ + 1, !.pc = "item",
              !.last = [at |-> At(s), url |-> CurUrl(s), outcome |-> tag,
                        err0 |-> s.total_error, left |-> left]]

\* line 770, driver.get(url) of get_product_info raised: the product page
\* is unreachable now and for `left` more attempts
ItemFetchFails(w) ==
    /\ wk[w].pc = "item"
    /\ wk[w].product_index < Len(wk[w].urls)
    /\ \E left \in 0 .. (MaxOutage - 1) :
         wk' = [wk EXCEPT ![w] = OnError(@, "ItemFetchError", left)]
    /\ UNCHANGED << number_of_pages, mpc, index, waiting, store, budget >>

\* lines 770-771: the product page loaded; get_product_info returned a
\* record, appended to products, or one of its helpers raised
ItemExtract(w) ==
    /\ wk[w].pc = "item"
    /\ wk[w].product_index < Len(wk[w].urls)
    /\ \E dom \in DomKinds :
         LET r == get_product_info(CurUrl(wk[w]), dom) IN
         wk' = [wk EXCEPT ![w] =
                  IF r.ok
                    THEN [@ EXCEPT !.pc = "insert",
                            !.products = Append(@, [f |-> r.f, oid |-> 0,
                                                    at |-> At(wk[w])])]
                    ELSE OnError(@, "ExtractionError", 0)]
    /\ UNCHANGED << number_of_pages, mpc, index, waiting, store, budget >>

\* line 775: the product is counted, then the next product_index
OnSuccess(s) ==
    [s EXCEPT !.total_success = @ + 1, !.product_index = @ + 1, !.pc = "item",
              !.last = [at |-> At(s), url |-> CurUrl(s), outcome |-> "ok",
                        err0 |-> s.total_error, left |-> 0]]

\* pymongo's insert_one(document) adds the key _id, holding a new ObjectId,
\* to the dict it is given when the dict has none.  oid = 0 stands for a
\* record without the key _id, oid = n > 0 for one whose _id is the n-th
\* ObjectId made.
WithId(rec, n) == [rec EXCEPT !.oid = n]

\* the keys of a record, as json.dump, DataFrame and the collection see them
KeysOf(rec) == DOMAIN rec.f \cup (IF rec.oid > 0 THEN {"_id"} ELSE {})

\* the document as the collection holds it
Doc(rec) == [f |-> rec.f, oid |-> rec.oid]

\* line 772: insert_one(info) stores the record as a new document; info is
\* the dict appended to products, so the list's last record gets the _id too
InsertOne(w) ==
    /\ wk[w].pc = "insert"
    /\ LET n == Len(wk[w].products)
           rec == WithId(wk[w].products[n], Cardinality(store) + 1)
       IN  /\ store' = store \cup {Doc(rec)}
           /\ wk' = [wk EXCEPT ![w].products[n] = rec, ![w].pc = "open"]
    /\ UNCHANGED << number_of_pages, mpc, index, waiting, budget >>

\* line 772: insert_one raised (server unreachable); caught at line 776
InsertFails(w) ==
    /\ wk[w].pc = "insert"
    /\ wk' = [wk EXCEPT ![w] = OnError(@, "InsertError", 0)]
    /\ UNCHANGED << number_of_pages, mpc, index, waiting, store, budget >>

\* line 773: open(file, "w") creates the file or truncates it
OpenFile(w) ==
    /\ wk[w].pc = "open"
    /\ wk' = [wk EXCEPT ![w].file = [st |-> "empty", recs |-> << >>],
                        ![w].pc = "dump"]
    /\ UNCHANGED << number_of_pages, mpc, index, waiting, store, budget >>

\* line 773: open raised (no permission, no space); caught at line 776
OpenFails(w) ==
    /\ wk[w].pc = "open"
    /\ wk' = [wk EXCEPT ![w] = OnError(@, "OpenError", 0)]
    /\ UNCHANGED << number_of_pages, mpc, index, waiting, store, budget >>

\* json's encoder raises TypeError on a value that is no str, number, bool,
\* None, list or dict: an ObjectId is none of them
Serializable(rec) == rec.oid = 0

\* the number of leading records json.dump writes in full: it writes the
\* list chunk by chunk and stops inside the first record it cannot encode
RECURSIVE Encoded(_)
Encoded(recs) ==
    IF recs = << >> \/ ~Serializable(Head(recs)) THEN 0
    ELSE 1 + Encoded(Tail(recs))

\* lines 774-775: json.dump(products, write_file), then the file is closed.
\* Either every record was written and the product is counted, or the
\* encoder raised, the file keeps what was written before, and the except
\* clause of line 776 runs
Dump(w) ==
    /\ wk[w].pc = "dump"
    /\ LET recs == wk[w].products
           n == Encoded(recs)
       IN  wk' = [wk EXCEPT ![w] =
                    IF n = Len(recs)
                      THEN OnSuccess([@ EXCEPT !.file =
                                        [st |-> "whole", recs |-> recs]])
                      ELSE OnError([@ EXCEPT !.file =
                                      [st |-> "torn", recs |-> SubSeq(recs, 1, n)]],
                                   "DumpError", 0)]
    /\ UNCHANGED << number_of_pages, mpc, index, waiting, store, budget >>

\* lines 767, 782-790: the products of the page are exhausted
EndItems(w) ==
    /\ wk[w].pc = "item"
    /\ wk[w].product_index = Len(wk[w].urls)
    /\ wk' = [wk EXCEPT ![w].page_number = @ + 1, ![w].pc = "page"]
    /\ UNCHANGED << number_of_pages, mpc, index, waiting, store, budget >>

\* lines 760, 792-800: the pages are exhausted; the csv file is written
\* from products and the job returns
Finish(w) ==
    /\ wk[w].pc = "page"
    /\ wk[w].page_number = Len(wk[w].pages)
    /\ wk' = [wk EXCEPT ![w].csv = wk[w].products, ![w].hascsv = TRUE,
                        ![w].pc = "done"]
    /\ UNCHANGED << number_of_pages, mpc, index, waiting, store, budget >>

JobStep(w) ==
    \/ StartJob(w)
    \/ WebdriverFails(w)
    \/ ListPage(w)
    \/ ListPageFails(w)
    \/ ItemFetchFails(w)
    \/ ItemExtract(w)
    \/ InsertOne(w)
    \/ InsertFails(w)
    \/ OpenFile(w)
    \/ OpenFails(w)
    \/ Dump(w)
    \/ EndItems(w)
    \/ Finish(w)

\* ------------------------------------------------------------------- main
Running(s) == s.pc \notin {"idle", "done", "failed", "killed"}

\* lines 835-841: pool.apply_async(get_products_df, (index, buckets[index]))
Submit ==
    /\ mpc = "submit"
    /\ index < Len(Buckets)
    /\ wk' = [wk EXCEPT ![index] = NewJob(Buckets[index + 1])]
    /\ index' = index + 1
    /\ UNCHANGED << number_of_pages, mpc, waiting, store, budget >>

\* lines 835, 844: the loop ends, pool.close(), the first job.get()
Close ==
    /\ mpc = "submit"
    /\ index = Len(Buckets)
    /\ mpc' = "wait"
    /\ UNCHANGED << number_of_pages, index, waiting, wk, store, budget >>

\* line 847: job.get() of a job that returned gives its result; main goes
\* on to the next job, and returns after the last one
GetReturns ==
    /\ mpc = "wait"
    /\ wk[waiting].pc = "done"
    /\ IF waiting + 1 < index
         THEN waiting' = waiting + 1 /\ mpc' = mpc
         ELSE waiting' = waiting /\ mpc' = "returned"
    /\ UNCHANGED << number_of_pages, index, wk, store, budget >>

\* what is left of a job when the pool is torn down
Terminated(s) == IF Running(s) THEN [s EXCEPT !.pc = "killed"] ELSE s

\* line 847: job.get() of a job that raised re-raises its exception in
\* main; nothing catches it (line 874), the program exits and the pool's
\* daemon processes are terminated with it
GetRaises ==
    /\ mpc = "wait"
    /\ wk[waiting].pc = "failed"
    /\ mpc' = "raised"
    /\ wk' = [w \in Procs |-> Terminated(wk[w])]
    /\ UNCHANGED << number_of_pages, index, waiting, store, budget >>

\* ------------------------------------------------------- specifications
\* the whole program, from line 818 on
Init ==
    /\ number_of_pages \in 1 .. MaxPages
    /\ mpc = "submit"
    /\ index = 0
    /\ waiting = 0
    /\ wk = [w \in Procs |-> IdleJob]
    /\ store = {}
    /\ budget = MaxRunItems

Next ==
    \/ Submit
    \/ Close
    \/ GetReturns
    \/ GetRaises
    \/ \E w \in Procs : JobStep(w)

Spec == Init /\ [][Next]_vars

\* one call get_products_df(0, pages) on its own, as a pool process runs it
InitJob ==
    /\ number_of_pages \in 1 .. MaxJobPages
    /\ mpc = "none"
    /\ index = 0
    /\ waiting = 0
    /\ wk = [w \in Procs |->
               IF w = 0 THEN NewJob(arange(number_of_pages)) ELSE IdleJob]
    /\ store = {}
    /\ budget = MaxJobItems

NextJob == \E w \in Procs : JobStep(w)

JobSpec == InitJob /\ [][NextJob]_vars

\* the whole program on a catalog whose pages list no product, with no
\* failure of the browser or of a page: what main hands out and which pages
\* the jobs visit
InitSplit ==
    /\ number_of_pages \in 1 .. MaxSplitPages
    /\ mpc = "submit"
    /\ index = 0
    /\ waiting = 0
    /\ wk = [w \in Procs |-> IdleJob]
    /\ store = {}
    /\ budget = 0

NextSplit ==
    \/ Submit
    \/ Close
    \/ GetReturns
    \/ \E w \in Procs : StartJob(w) \/ ListPage(w) \/ EndItems(w) \/ Finish(w)

SplitSpec == InitSplit /\ [][NextSplit]_vars

\* ------------------------------------------------------------ properties
\* the (bucket, position) slots of a sequence of buckets
Slots(bs) == UNION {{<< i, j >> : j \in DOMAIN bs[i]} : i \in DOMAIN bs}

\* every page id of 1 .. n sits in exactly one slot, and nothing else does
CoversOnce(bs, n) ==
    /\ \A ij \in Slots(bs) : bs[ij[1]][ij[2]] \in 1 .. n
    /\ \A p \in 1 .. n :
         Cardinality({ij \in Slots(bs) : bs[ij[1]][ij[2]] = p}) = 1

\* the page ids a job has asked the catalog for so far
Visited(s) ==
    {s.pages[j] : j \in 1 .. (IF s.pc \in {"item", "insert", "open", "dump"}
                                THEN s.page_number + 1 ELSE s.page_number)}

\* C1: for every number of pages >= 1 and every worker count >= 1 the
\* buckets of array_split hold each page id of 1 .. number_of_pages exactly
\* once; so do the page lists main has handed to the jobs once all are
\* submitted, and no page id is ever visited by two jobs.
C1_PartitionCoversPagesOnce ==
    /\ \A k \in 1 .. MaxWorkerCount :
         CoversOnce(array_split(arange(number_of_pages), k), number_of_pages)
    /\ index = NUMBER_OF_PROCESS =>
         CoversOnce([i \in 1 .. NUMBER_OF_PROCESS |-> wk[i - 1].pages],
                    number_of_pages)
    /\ \A w1, w2 \in Procs :
         w1 # w2 => Visited(wk[w1]) \cap Visited(wk[w2]) = {}

\* all jobs are submitted, the pages do not divide evenly, and two jobs are
\* each on the second page of their bucket
C1_Witness ==
    /\ mpc = "wait"
    /\ number_of_pages % NUMBER_OF_PROCESS # 0
    /\ \E w1, w2 \in Procs :
         /\ w1 # w2
         /\ wk[w1].pc = "item" /\ wk[w1].page_number = 1
         /\ wk[w2].pc = "item" /\ wk[w2].page_number = 1

\* C2: a step in which the fetch of product i of page p fails adds exactly 1
\* to the job's total_error, leaves total_success, the record list and the
\* file as they were, and leaves the job in its product loop at product
\* i + 1 of the same page, with the rest of its bucket still to come.
C2_ItemFetchFailureIsolated ==
    [][\A w \in Procs :
          (wk'[w].last # wk[w].last /\ wk'[w].last.outcome = "ItemFetchError")
            => /\ wk'[w].total_error = wk[w].total_error + 1
               /\ wk'[w].total_success = wk[w].total_success
               /\ wk'[w].products = wk[w].products
               /\ wk'[w].file = wk[w].file
               /\ wk'[w].pc = "item"
               /\ wk'[w].pages = wk[w].pages
               /\ wk'[w].page_number = wk[w].page_number
               /\ wk'[w].urls = wk[w].urls
               /\ wk'[w].product_index = wk[w].product_index + 1
               /\ wk'[w].last.at = At(wk[w])]_vars

\* the fetch of product i failed and the job has extracted product i + 1 of
\* the same page
C2_Witness ==
    \E w \in Procs :
      /\ wk[w].last.outcome = "ItemFetchError"
      /\ wk[w].pc = "insert"
      /\ At(wk[w]) = << wk[w].last.at[1], wk[w].last.at[2] + 1 >>
      /\ wk[w].total_error = 1

\* C3: a failure to fetch or list a catalog page never aborts the job: no
\* job ends with the exception of a page fetch.
C3_PageFailureNeverAborts ==
    \A w \in Procs : ~(wk[w].pc = "failed" /\ wk[w].exc = "PageFetchError")

\* C4: at every point at which the job could be terminated, its JSON file
\* holds no partial record and, with k the number of completed snapshot
\* writes (total_success), exactly the first k records the job collected.
C4_SnapshotHoldsFirstK ==
    \A w \in Procs :
      /\ wk[w].file.st # "torn"
      /\ wk[w].total_success >= 1 =>
           /\ wk[w].file.st = "whole"
           /\ wk[w].total_success <= Len(wk[w].products)
           /\ wk[w].file.recs = SubSeq(wk[w].products, 1, wk[w].total_success)

\* the natural identity of a stored document: its bar code
Identity(d) == d.f["Code_barres"]

\* C5: the store never holds two documents for the same natural identity:
\* writing a record a second time leaves the store as writing it once.
C5_StoreHoldsIdentityOnce ==
    \A d1, d2 \in store :
      (d1 # d2 /\ Identity(d1) # UNKNOWN_VALUE) => Identity(d1) # Identity(d2)

\* C6: every record of the run, in a job's list (what the snapshot and the
\* export are written from) and in the store, has exactly the declared
\* fields as its keys.
C6_RecordsHaveDeclaredKeys ==
    /\ \A d \in store : KeysOf(d) = DeclaredKeys
    /\ \A w \in Procs : \A j \in DOMAIN wk[w].products :
         KeysOf(wk[w].products[j]) = DeclaredKeys

\* C7: when the product page loaded and an extraction step failed, a record
\* for the product is still in the job's list and the product is not counted
\* as failed.
C7_PartialExtractionIsSuccess ==
    \A w \in Procs :
      wk[w].last.outcome = "ExtractionError" =>
        /\ \E j \in DOMAIN wk[w].products :
             wk[w].products[j].at = wk[w].last.at
        /\ wk[w].total_error = wk[w].last.err0

\* C8 as claimed: when the fetch of a product failed and a retry would have
\* reached the page (no failing attempt left), the record of the product is
\* in the job's list and the failure is not counted.
C8_RetryProducesRecord ==
    \A w \in Procs :
      (wk[w].last.outcome = "ItemFetchError" /\ wk[w].last.left = 0) =>
        /\ \E j \in DOMAIN wk[w].products :
             wk[w].products[j].at = wk[w].last.at
        /\ wk[w].total_error = wk[w].last.err0

\* C8 as amended: the fetch of a product is tried once; when it failed, also
\* when a retry would have reached the page, the job's list has no record
\* of the product and total_error is 1 more than before the product.
C8_FetchFailureIsNotRetried ==
    \A w \in Procs :
      wk[w].last.outcome = "ItemFetchError" =>
        /\ \A j \in DOMAIN wk[w].products :
             wk[w].products[j].at # wk[w].last.at
        /\ wk[w].total_error = wk[w].last.err0 + 1

\* the fetch of a product failed, a retry would have reached the page, and
\* the job has moved on
C8_Witness ==
    \E w \in Procs :
      /\ wk[w].last.outcome = "ItemFetchError"
      /\ wk[w].last.left = 0
      /\ wk[w].pc = "page"
      /\ wk[w].page_number = 1

\* C9: when main has stopped waiting (returned, or left by an exception),
\* every job has returned or has reported its failure: none was still
\* running.
C9_MainOutlastsEveryJob ==
    mpc \in {"returned", "raised"} =>
      \A w \in Procs : wk[w].pc \in {"done", "failed"}

\* C10: when the run has ended and at least one job completed a bucket that
\* is not empty, the run ended as successful: main returned.
C10_RunSucceedsWithOnePartitionDone ==
    (/\ mpc \in {"returned", "raised"}
     /\ \E w \in Procs : wk[w].pc = "done" /\ wk[w].pages # << >>)
      => mpc = "returned"

\* the outcomes in which a write to a sink raised
SinkErrors == {"InsertError", "OpenError", "DumpError"}

\* C11: when a write of a record to the store or to the snapshot file has
\* failed, the job has ended with a failure reported to main: it is not in
\* its loops any more, going on to the next product.
C11_SinkFailureAbortsJob ==
    \A w \in Procs :
      wk[w].last.outcome \in SinkErrors => wk[w].pc = "failed"

RECURSIVE Flatten(_)
\* the buckets laid end to end
Flatten(bs) == IF bs = << >> THEN << >> ELSE Head(bs) \o Flatten(Tail(bs))

\* the lengths of the buckets, in order
Sizes(bs) == [i \in DOMAIN bs |-> Len(bs[i])]

\* C12: for every worker count, array_split yields that many buckets which,
\* laid end to end in bucket order, are the page ids 1 .. number_of_pages in
\* ascending order (contiguous ranges), with sizes that differ by at most
\* one; 10 pages split 4 ways have the sizes 3, 3, 2, 2; and each submitted
\* job holds the bucket of its process_id.
C12_PartitionIsBalancedAndContiguous ==
    /\ \A k \in 1 .. MaxWorkerCount :
         LET bs == array_split(arange(number_of_pages), k) IN
           /\ Len(bs) = k
           /\ Flatten(bs) = arange(number_of_pages)
           /\ \A i, j \in 1 .. k : Len(bs[i]) - Len(bs[j]) <= 1
    /\ number_of_pages = 10 =>
         Sizes(array_split(arange(number_of_pages), 4)) = << 3, 3, 2, 2 >>
    /\ \A w \in Procs :
         wk[w].pc # "idle" =>
           wk[w].pages = array_split(arange(number_of_pages),
                                     NUMBER_OF_PROCESS)[w + 1]

\* 10 pages, all four jobs submitted, holding 3, 3, 2 and 2 pages
C12_Witness ==
    /\ number_of_pages = 10
    /\ index = NUMBER_OF_PROCESS
    /\ [w \in Procs |-> Len(wk[w].pages)] = (0 :> 3 @@ 1 :> 3 @@ 2 :> 2 @@ 3 :> 2)
    /\ wk[0].pages = << 1, 2, 3 >>
    /\ wk[3].pages = << 9, 10 >>

\* page-then-item order of two (page, product index) positions
AtLess(a, b) == a[1] < b[1] \/ (a[1] = b[1] /\ a[2] < b[2])

\* a job's list holds its records in page-then-item order, the documents it
\* inserted got their ObjectIds in that order, and its file holds a leading
\* part of the list
RecordsInOrder(s) ==
    /\ \A i, j \in DOMAIN s.products :
         i < j =>
           /\ AtLess(s.products[i].at, s.products[j].at)
           /\ (s.products[i].oid > 0 /\ s.products[j].oid > 0)
                => s.products[i].oid < s.products[j].oid
    /\ Len(s.file.recs) <= Len(s.products)
    /\ s.file.recs = SubSeq(s.products, 1, Len(s.file.recs))

\* the job has gone on from a product whose record it appended only with
\* both writes of that record done: its document is in the store and the
\* file holds the list with the record in it
WritesDone(s) ==
    s.last.outcome \in {"ok"} \cup SinkErrors =>
      \E j \in DOMAIN s.products :
        /\ s.products[j].at = s.last.at
        /\ Doc(s.products[j]) \in store
        /\ s.file.st = "whole"
        /\ j <= Len(s.file.recs)

\* C13: within a job, records are appended and written in page-then-item
\* order, and the job never goes on to the next product before both writes
\* of the current record have finished.
C13_WritesInOrderBeforeNext ==
    \A w \in Procs : RecordsInOrder(wk[w]) /\ WritesDone(wk[w])

\* the part of C13 that holds of the code: the order alone
C13_OrderOnly == \A w \in Procs : RecordsInOrder(wk[w])

\* the number of products the job of JobSpec has finished handling: those the
\* catalog has listed to it, less those of the current page still to come
Handled(s) == (MaxJobItems - budget) - (Len(s.urls) - s.product_index)

\* the record of the current product is appended and not counted yet
InFlight(s) == s.pc \in {"insert", "open", "dump"}

\* total_success + total_error is the number of products handled
CountersAddUp(s) == s.total_success + s.total_error = Handled(s)

\* C14: in every state of a job, total_success + total_error is the number
\* of products it has finished handling, its list holds as many records as
\* total_success counts (one more while the current record is being
\* written), no product counted as failed has a record in the list, and the
\* csv export is the list.
C14_ListMatchesSuccessCounter ==
    \A w \in Procs :
      wk[w].pc # "idle" =>
        /\ CountersAddUp(wk[w])
        /\ Len(wk[w].products) =
             wk[w].total_success + (IF InFlight(wk[w]) THEN 1 ELSE 0)
        /\ wk[w].last.outcome \in SinkErrors \cup {"ItemFetchError", "ExtractionError"}
             => \A j \in DOMAIN wk[w].products :
                  wk[w].products[j].at # wk[w].last.at
        /\ wk[w].hascsv => wk[w].csv = wk[w].products

\* the part of C14 that holds of the code: the two counters add up
C14_CountersOnly == \A w \in Procs : wk[w].pc # "idle" => CountersAddUp(wk[w])

====
